---- MODULE Spec2Model ----
(***************************************************************************)
(* cfsRoutes: the get_slips pipeline (load_signups -> distance_matrix ->   *)
(* get_routes -> assign_drivers -> slips_list -> write_slips) and the pure  *)
(* functions it is built from.                                             *)
(*                                                                         *)
(* Python dicts are functions with a string domain, so a key may be        *)
(* missing; Python lists are sequences (list index i is sequence index     *)
(* i+1); None is the empty tuple.  Coordinates are in units of 1e-4        *)
(* degree and distances in whole metres.                                   *)
(***************************************************************************)
EXTENDS Integers, Sequences, FiniteSets, TLC

VARIABLES
    pc,              \* the statement of get_slips (or of the function under study) that runs next
    enable_filter,   \* BaseConfig.enable_filter
    origin,          \* BaseConfig.origin
    drivers,         \* BaseConfig.drivers
    outfile,         \* the outfile argument of get_slips: TRUE when a path is given
    geocoding_service, \* the geocoding_service of the configuration
    geocache,        \* the functools.cache tables of bcgov_get_location and gm_get_location
    geocalls,        \* the calls of the geocoding functions so far, in order
    signups,         \* the list load_signups builds, as check_coordinates receives it
    data,            \* the kept list load_signups returns
    filtered,        \* the filtered list load_signups returns
    dist_matrix,     \* the matrix built by matrix.distance_matrix
    data_model,      \* the dict built by solver.create_data_model
    paths,           \* the value returned by solver.get_routes
    assignment,      \* the value returned by solver.assign_drivers
    slips,           \* the value returned by slips_list
    written,         \* the rows written to the output file
    called,          \* the functions get_slips has called so far
    raised           \* the exception that ended the run, or None

vars == <<pc, enable_filter, origin, drivers, outfile, geocoding_service,
          geocache, geocalls, signups, data, filtered,
          dist_matrix, data_model, paths, assignment, slips, written,
          called, raised>>

----------------------------------------------------------------------------
(* Bounds *)

MaxDeliveries == 3
MaxDrivers == 1
MaxRecords == 8
MaxRoutes == 3
MaxRouteDrivers == 2
MaxLookups == 2

----------------------------------------------------------------------------
(* Python values *)

None == <<>>

\* A number returned by a function that may also return None
Some(v) == <<v>>

\* The value of raised while no exception has been raised
NoException == "no exception"

Get(row, key) == IF key \in DOMAIN row THEN row[key] ELSE None

Update(row, other) ==
    [k \in DOMAIN row \cup DOMAIN other |->
        IF k \in DOMAIN other THEN other[k] ELSE row[k]]

SetItem(row, key, value) ==
    [k \in DOMAIN row \cup {key} |-> IF k = key THEN value ELSE row[k]]

Range(s) == {s[i] : i \in DOMAIN s}

RECURSIVE SumSeq(_)
SumSeq(s) == IF s = <<>> THEN 0 ELSE Head(s) + SumSeq(Tail(s))

Repeat(v, n) == [i \in 1..n |-> v]

UpperChar(c) ==
    CASE c = "v" -> "V"
      [] c = "t" -> "T"
      [] c = "a" -> "A"
      [] c = "x" -> "X"
      [] OTHER -> c

upper(s) == [i \in DOMAIN s |-> UpperChar(s[i])]

----------------------------------------------------------------------------
(* matrix.py *)

Loc(lat, lng) == [lat |-> lat, lng |-> lng]

DepotLoc == Loc(484284, -1233656)
NearLoc == Loc(484500, -1233500)
FarLoc == Loc(486500, -1234000)
DefaultLoc == Loc(484300, -1233600)
V8TLoc == Loc(484400, -1233400)
V9ALoc == Loc(484450, -1233900)
DriverLoc == Loc(484600, -1233300)

R == 6378137

\* coords(lat, lng, R) of pair_euclid_distance, rounded to the metre, for
\* the coordinates of the bounded input set.
coords(lat, lng) ==
    CASE lat = 484284 /\ lng = -1233656 -> <<-2327649, -3534681, 4771657>>
      [] lat = 484500 /\ lng = -1233500 -> <<-2325697, -3533812, 4773252>>
      [] lat = 486500 /\ lng = -1234000 -> <<-2319594, -3517849, 4787990>>
      [] lat = 484300 /\ lng = -1233600 -> <<-2327230, -3534797, 4771775>>
      [] lat = 484400 /\ lng = -1233400 -> <<-2325539, -3534914, 4772514>>
      [] lat = 484450 /\ lng = -1233900 -> <<-2328393, -3532535, 4772883>>
      [] lat = 484600 /\ lng = -1233300 -> <<-2324006, -3533927, 4773991>>

\* np.sqrt in whole metres: bisection on 0..46340
RECURSIVE SqrtIn(_, _, _)
SqrtIn(n, lo, hi) ==
    IF hi - lo <= 1 THEN lo
    ELSE LET mid == (lo + hi) \div 2
         IN  IF mid * mid <= n THEN SqrtIn(n, mid, hi) ELSE SqrtIn(n, lo, mid)

sqrt(n) == SqrtIn(n, 0, 46340)

pair_euclid_distance(source, dest) ==
    LET p1 == coords(source[1], source[2])
        p2 == coords(dest[1], dest[2])
    IN  sqrt( (p2[1] - p1[1]) * (p2[1] - p1[1])
            + (p2[2] - p1[2]) * (p2[2] - p1[2])
            + (p2[3] - p1[3]) * (p2[3] - p1[3]) )

values(loc) == <<loc.lat, loc.lng>>

distance(source, dest) ==
    \* source.get("lat") is None exactly when the key is missing
    IF \E k \in {"lat", "lng"} : k \notin DOMAIN source \/ k \notin DOMAIN dest
    THEN None
    ELSE Some(pair_euclid_distance(<<source.lat, source.lng>>,
                                   <<dest.lat, dest.lng>>))

\* distance_matrix without the final column of zeros
distance_matrix_no_column(d) ==
    LET locations == [k \in DOMAIN d |-> d[k].location]
        size == Len(locations)
        result_matrix ==
            [i \in 1..size |-> [j \in 1..size |->
                pair_euclid_distance(values(locations[i]), values(locations[j]))]]
    IN  result_matrix \o <<Repeat(0, size)>>

\* The matrix is a list of rows; row and column index i is sequence index i+1.
distance_matrix(d) ==
    LET locations == [k \in DOMAIN d |-> d[k].location]
        size == Len(locations)
        result_matrix ==
            [i \in 1..size |-> [j \in 1..size |->
                pair_euclid_distance(values(locations[i]), values(locations[j]))]]
        with_row == result_matrix \o <<Repeat(0, size)>>
    IN  [i \in 1..Len(with_row) |-> with_row[i] \o <<0>>]

----------------------------------------------------------------------------
(* convert.py *)

threshold == 10000

\* values.postal_code_fallback and values.default_location
postal_code_fallback ==
    [p \in {<<"V", "8", "T">>, <<"V", "9", "A">>} |->
        IF p = <<"V", "8", "T">> THEN V8TLoc ELSE V9ALoc]

default_location == DefaultLoc

\* fallback with the postal table left out
fallback_default_only(postal) == default_location

\* dict.get(key, default)
fallback(postal) ==
    IF postal \in DOMAIN postal_code_fallback
    THEN postal_code_fallback[postal]
    ELSE default_location

\* Strings that the code takes apart are tuples of one-character strings
Victoria == <<"V", "i", "c", "t", "o", "r", "i", "a">>
Atlantis == <<"A", "t", "l", "a", "n", "t", "i", "s">>
NearSt == <<"1", "2", " ", "N", "e", "a", "r", " ", "S", "t">>
UnitNearSt == <<"3", "-", "1", "2", " ", "N", "e", "a", "r", " ", "S", "t">>
NearStCity == <<"1", "2", " ", "n", "e", "a", "r", " ", "s", "t", ",", " ", "v", "i", "c", "t", "o", "r", "i", "a">>
FarRd == <<"3", "4", " ", "F", "a", "r", " ", "R", "d">>
FarAve == <<"5", "6", " ", "F", "a", "r", " ", "A", "v", "e">>
FarCres == <<"7", "8", " ", "F", "a", "r", " ", "C", "r", "e", "s">>
NowhereLn == <<"9", " ", "N", "o", "w", "h", "e", "r", "e", " ", "L", "n">>

Uppercase == <<"A", "B", "C", "D", "E", "F", "G", "H", "I", "J", "K", "L", "M", "N", "O", "P", "Q", "R", "S", "T", "U", "V", "W", "X", "Y", "Z">>
Lowercase == <<"a", "b", "c", "d", "e", "f", "g", "h", "i", "j", "k", "l", "m", "n", "o", "p", "q", "r", "s", "t", "u", "v", "w", "x", "y", "z">>

ToLower ==
    [c \in Range(Uppercase) |-> Lowercase[CHOOSE k \in DOMAIN Uppercase : Uppercase[k] = c]]

LowerChar(c) == IF c \in DOMAIN ToLower THEN ToLower[c] ELSE c

\* str.lower
RECURSIVE lower(_)
lower(s) == IF s = <<>> THEN <<>> ELSE <<LowerChar(Head(s))>> \o lower(Tail(s))

Whitespace == {" ", "\n", "\t"}
Digits == {"0", "1", "2", "3", "4", "5", "6", "7", "8", "9"}

RECURSIVE lstrip(_)
lstrip(s) == IF s # <<>> /\ Head(s) \in Whitespace THEN lstrip(Tail(s)) ELSE s

RECURSIVE rstrip(_)
rstrip(s) ==
    IF s # <<>> /\ s[Len(s)] \in Whitespace
    THEN rstrip(SubSeq(s, 1, Len(s) - 1))
    ELSE s

\* str.strip
strip(s) == rstrip(lstrip(s))

\* str.replace(old, new) for a one-character old
RECURSIVE replace(_, _, _)
replace(s, old, new) ==
    IF s = <<>> THEN <<>>
    ELSE (IF Head(s) = old THEN new ELSE <<Head(s)>>) \o replace(Tail(s), old, new)

\* needle in hay
contains(hay, needle) ==
    \E i \in 0..(Len(hay) - Len(needle)) : SubSeq(hay, i + 1, i + Len(needle)) = needle

\* The first index from i on whose character is not in chars
RECURSIVE SkipIn(_, _, _)
SkipIn(s, i, chars) ==
    IF i <= Len(s) /\ s[i] \in chars THEN SkipIn(s, i + 1, chars) ELSE i

\* re.sub(r"^(#?[0-9]+)\s*\-+\s*(.*)", r"\2", address) on an address
\* without newlines
re_sub_unit(address) ==
    LET a == IF address # <<>> /\ address[1] = "#" THEN 2 ELSE 1
        b == SkipIn(address, a, Digits)
        c == SkipIn(address, b, Whitespace)
        d == SkipIn(address, c, {"-"})
        e == SkipIn(address, d, Whitespace)
    IN  IF b > a /\ d > c THEN SubSeq(address, e, Len(address)) ELSE address

\* BaseConfig.city of the default configuration
city == Victoria

address_limit == 50

preprocess_address(address) ==
    LET cleaned == replace(replace(strip(address), "\n", <<",", " ">>), "/", <<"-">>)
        cut == SubSeq(cleaned, 1, IF Len(cleaned) < address_limit
                                  THEN Len(cleaned) ELSE address_limit)
        street == re_sub_unit(cut)
    IN  IF contains(lower(street), lower(city))
        THEN street
        ELSE street \o <<",", " ">> \o city

InCity(street) == street \o <<",", " ">> \o city

Province == <<",", " ", "B", "C">>

\* The places the geocoding services know, by the address string in lower
\* case
KnownPlaces ==
    (lower(Victoria) :>
        [location |-> DepotLoc, full_address |-> "Victoria, BC"])
    @@ (lower(InCity(NearSt)) :>
        [location |-> NearLoc, full_address |-> "12 Near St, Victoria, BC"])
    @@ (lower(InCity(FarRd)) :>
        [location |-> FarLoc, full_address |-> "34 Far Rd, Victoria, BC"])
    @@ (lower(InCity(FarAve)) :>
        [location |-> FarLoc, full_address |-> "56 Far Ave, Victoria, BC"])
    @@ (lower(InCity(FarCres)) :>
        [location |-> FarLoc, full_address |-> "78 Far Cres, Victoria, BC"])
    @@ (lower(InCity(<<"V", "8", "T">>)) :>
        [location |-> DriverLoc, full_address |-> "Victoria, BC V8T",
         postal |-> <<"V", "8", "T">>])
    @@ (lower(InCity(<<"V", "9", "A">>)) :>
        [location |-> V9ALoc, full_address |-> "Victoria, BC V9A",
         postal |-> <<"V", "9", "A">>])

\* What a geocoding service answers for the address string sent to it (it
\* reads the string without regard to case, with or without the province);
\* None: no result
places(query) ==
    LET n == Len(query) - Len(Province)
        named == IF n >= 0 /\ SubSeq(query, n + 1, Len(query)) = Province
                 THEN SubSeq(query, 1, n) ELSE query
        q == lower(named)
    IN  IF q \in DOMAIN KnownPlaces THEN KnownPlaces[q] ELSE None

\* The body of gm_get_location: the query sent to client.geocode and the
\* value returned
gm_get_location(address) ==
    LET geocode(query) ==
            LET result == places(query)
            IN  [query |-> query,
                 result |-> IF result = None
                            THEN [location |-> None]
                            ELSE [full_address |-> result.full_address,
                                  postal |-> Get(result, "postal"),
                                  location |-> result.location]]
    IN  geocode(preprocess_address(address) \o Province)

\* The body of bcgov_get_location: the query sent with requests.get and
\* the value returned
bcgov_get_location(address) ==
    LET get(query) ==
            LET features == places(query)
            IN  [query |-> query,
                 result |-> IF features = None
                            THEN None
                            ELSE [location |-> features.location,
                                  full_address |-> features.full_address]]
    IN  get(preprocess_address(address))

\* A callable given as geocoding_service: it gets the address as it is
custom_geocoder(address) ==
    LET features == places(address)
    IN  [query |-> address,
         result |-> IF features = None
                    THEN None
                    ELSE [location |-> features.location,
                          full_address |-> features.full_address]]

GeocodingServices == {"bcgov", "google", "custom"}

\* The functools.cache tables of the two built-in functions, by the address
\* argument of the call
EmptyCache == [bcgov |-> <<>>, google |-> <<>>]

\* cached_call without the look into the cache
cached_call_always_calling(func, cache, calls, address) ==
    LET store(called_body) ==
            [result |-> called_body.result,
             cache |-> [cache EXCEPT ![func] = (address :> called_body.result) @@ @],
             calls |-> Append(calls, [func |-> func, address |-> address,
                                       invoked |-> TRUE, query |-> called_body.query,
                                       result |-> called_body.result])]
    IN  store(IF func = "bcgov" THEN bcgov_get_location(address)
              ELSE gm_get_location(address))

\* A call of a function decorated with functools.cache: the body runs when
\* the address argument has no entry yet.  calls is the list of the calls
\* made so far, each with whether the service was invoked
cached_call(func, cache, calls, address) ==
    IF address \in DOMAIN cache[func]
    THEN [result |-> cache[func][address],
          cache |-> cache,
          calls |-> Append(calls, [func |-> func, address |-> address,
                                    invoked |-> FALSE, query |-> None,
                                    result |-> cache[func][address]])]
    ELSE LET store(called_body) ==
                 [result |-> called_body.result,
                  cache |-> [cache EXCEPT ![func] = (address :> called_body.result) @@ @],
                  calls |-> Append(calls, [func |-> func, address |-> address,
                                            invoked |-> TRUE, query |-> called_body.query,
                                            result |-> called_body.result])]
         IN  store(IF func = "bcgov" THEN bcgov_get_location(address)
                   ELSE gm_get_location(address))

\* self.geocoding_func(address), as init_geocode_func has set it
geocoding_func(service, cache, calls, address) ==
    IF service = "custom"
    THEN LET called_body == custom_geocoder(address)
         IN  [result |-> called_body.result,
              cache |-> cache,
              calls |-> Append(calls, [func |-> "custom", address |-> address,
                                        invoked |-> TRUE, query |-> called_body.query,
                                        result |-> called_body.result])]
    ELSE cached_call(service, cache, calls, address)

\* The calls of gm_get_location that driver_data makes for drivers[j..]
RECURSIVE driver_lookups(_, _, _, _)
driver_lookups(drvs, j, cache, calls) ==
    IF j > Len(drvs) THEN [cache |-> cache, calls |-> calls]
    ELSE IF drvs[j].postal = None
    THEN driver_lookups(drvs, j + 1, cache, calls)
    ELSE LET rest(looked) == driver_lookups(drvs, j + 1, looked.cache, looked.calls)
         IN  rest(cached_call("google", cache, calls, drvs[j].postal))

\* The rows from_csv can deliver, before source_index is set
SignupRows ==
    { [address |-> NearSt],
      [address |-> FarRd, postal |-> <<"v", "8", "t">>],
      [address |-> FarAve, postal |-> <<"X", "0", "X">>],
      [address |-> FarCres],
      [address |-> NowhereLn] }

Origins == {Victoria, Atlantis}

from_csv(rows) ==
    [i \in DOMAIN rows |-> SetItem(rows[i], "source_index", i)]

add_origin(d, o) ==
    IF d # <<>> /\ Get(d[1], "address") = o
    THEN d
    ELSE <<[address |-> o]>> \o d

\* The loop of add_coordinates over rows d[i..]
RECURSIVE add_coordinates_loop(_, _, _, _, _)
add_coordinates_loop(d, i, service, cache, calls) ==
    IF i > Len(d) THEN [data |-> d, cache |-> cache, calls |-> calls]
    ELSE IF Get(d[i], "location") # None
    THEN add_coordinates_loop(d, i + 1, service, cache, calls)
    ELSE LET rest(looked) ==
                 LET location_data == looked.result
                     row == IF location_data # None
                            THEN Update(d[i], location_data) ELSE d[i]
                 IN  add_coordinates_loop([d EXCEPT ![i] = row], i + 1, service,
                                          looked.cache, looked.calls)
         IN  rest(geocoding_func(service, cache, calls, d[i].address))

add_coordinates(d, service, cache, calls) ==
    add_coordinates_loop(d, 1, service, cache, calls)

\* check_loop without the `continue` after filtered += [row]
RECURSIVE check_loop_no_continue(_, _, _, _, _, _)
check_loop_no_continue(rows, i, origin_loc, keep, filt, filter_on) ==
    IF i > Len(rows)
    THEN [raised |-> NoException, keep |-> keep, filtered |-> filt]
    ELSE LET row == rows[i]
             location == Get(row, "location")
             dist == IF location # None THEN distance(location, origin_loc) ELSE None
         IN  IF dist = None
             THEN [raised |-> "TypeError", keep |-> <<>>, filtered |-> <<>>]
             ELSE IF dist[1] > threshold
             THEN IF filter_on
                  THEN check_loop_no_continue(rows, i + 1, origin_loc,
                           Append(keep, row), Append(filt, row), filter_on)
                  ELSE LET postal == Get(row, "postal")
                           key == IF postal # None THEN upper(postal) ELSE postal
                       IN  check_loop_no_continue(rows, i + 1, origin_loc,
                               Append(keep, SetItem(row, "location", fallback(key))),
                               filt, filter_on)
             ELSE check_loop_no_continue(rows, i + 1, origin_loc, Append(keep, row),
                                         filt, filter_on)

\* The loop of check_coordinates over rows[i..]; int(distance) in the
\* logger.info call raises TypeError when distance is None.
RECURSIVE check_loop(_, _, _, _, _, _)
check_loop(rows, i, origin_loc, keep, filt, filter_on) ==
    IF i > Len(rows)
    THEN [raised |-> NoException, keep |-> keep, filtered |-> filt]
    ELSE LET row == rows[i]
             location == Get(row, "location")
             dist == IF location # None THEN distance(location, origin_loc) ELSE None
         IN  IF dist = None
             THEN [raised |-> "TypeError", keep |-> <<>>, filtered |-> <<>>]
             ELSE IF dist[1] > threshold
             THEN IF filter_on
                  THEN check_loop(rows, i + 1, origin_loc, keep,
                                  Append(filt, row), filter_on)
                  ELSE LET postal == Get(row, "postal")
                           key == IF postal # None THEN upper(postal) ELSE postal
                       IN  check_loop(rows, i + 1, origin_loc,
                               Append(keep, SetItem(row, "location", fallback(key))),
                               filt, filter_on)
             ELSE check_loop(rows, i + 1, origin_loc, Append(keep, row),
                             filt, filter_on)

\* check_coordinates without the test of the origin's coordinates
check_coordinates_unchecked(d, filter_on) ==
    check_loop(Tail(d), 1, Get(d[1], "location"), <<>>, <<>>, filter_on)

check_coordinates(d, filter_on) ==
    LET origin_data == d[1]
        rest == Tail(d)
        origin_loc == Get(origin_data, "location")
    IN  IF origin_loc = None
        THEN [raised |-> "ValueError", keep |-> <<>>, filtered |-> <<>>]
        ELSE check_loop(rest, 1, origin_loc, <<>>, <<>>, filter_on)

----------------------------------------------------------------------------
(* solver.py *)

vehicle_capacity == 6

\* create_data_model with capacities = [7] * cars
create_data_model_capacity_7(matrix) ==
    LET deliveries == Len(matrix) - 2
        cars == (deliveries \div 6) + (IF deliveries % 6 # 0 THEN 1 ELSE 0)
        capacities == Repeat(7, cars)
        model == [ distance_matrix |-> matrix,
                   num_vehicles |-> cars,
                   starts |-> Repeat(0, cars),
                   ends |-> Repeat(Len(matrix) - 1, cars),
                   demands |-> <<0>> \o Repeat(1, deliveries) \o <<0>>,
                   vehicle_capacities |-> capacities ]
    IN  IF SumSeq(model.demands) <= SumSeq(capacities)
        THEN [raised |-> NoException, data |-> model]
        ELSE [raised |-> "AssertionError", data |-> model]

create_data_model(matrix) ==
    LET deliveries == Len(matrix) - 2
        cars == (deliveries \div 6) + (IF deliveries % 6 # 0 THEN 1 ELSE 0)
        capacities == Repeat(vehicle_capacity, cars)
        model == [ distance_matrix |-> matrix,
                   num_vehicles |-> cars,
                   starts |-> Repeat(0, cars),
                   ends |-> Repeat(Len(matrix) - 1, cars),
                   demands |-> <<0>> \o Repeat(1, deliveries) \o <<0>>,
                   vehicle_capacities |-> capacities ]
    IN  IF SumSeq(model.demands) <= SumSeq(capacities)
        THEN [raised |-> NoException, data |-> model]
        ELSE [raised |-> "AssertionError", data |-> model]

\* pywrapcp.RoutingIndexManager(num_nodes, num_vehicles, starts, ends):
\* the nodes that are a start or not an end get the first indices, in node
\* order; a vehicle whose start node an earlier vehicle already uses gets a
\* new index for it; every vehicle gets a new index for its end.
RoutingIndexManager(num_nodes, num_vehicles, starts, ends) ==
    LET regular == {n \in 0..(num_nodes - 1) : n \in Range(starts) \/ n \notin Range(ends)}
        node_to_index == [n \in regular |-> Cardinality({m \in regular : m < n})]
        dup(v) == \E w \in 1..(v - 1) : starts[w] = starts[v]
        dups(v) == Cardinality({w \in 1..v : dup(w)})
        size == Cardinality(regular) + dups(num_vehicles)
        vehicle_to_start ==
            [v \in 1..num_vehicles |->
                IF dup(v) THEN Cardinality(regular) + dups(v) - 1
                ELSE node_to_index[starts[v]]]
        vehicle_to_end == [v \in 1..num_vehicles |-> size + v - 1]
        index_to_node ==
            [ix \in 0..(size + num_vehicles - 1) |->
                IF ix < Cardinality(regular)
                THEN CHOOSE n \in regular : node_to_index[n] = ix
                ELSE IF ix < size
                THEN starts[CHOOSE v \in 1..num_vehicles : dup(v) /\ vehicle_to_start[v] = ix]
                ELSE ends[ix - size + 1]]
    IN  [ size |-> size,
          node_to_index |-> node_to_index,
          index_to_node |-> index_to_node,
          vehicle_to_start |-> vehicle_to_start,
          vehicle_to_end |-> vehicle_to_end ]

IndexToNode(manager, index) == manager.index_to_node[index]

Start(manager, vehicle_id) == manager.vehicle_to_start[vehicle_id]

IsEnd(manager, index) == index >= manager.size

\* path_from that also appends the node of the vehicle's end
RECURSIVE path_from_with_end(_, _, _)
path_from_with_end(manager, solution, index) ==
    IF IsEnd(manager, index)
    THEN <<IndexToNode(manager, index)>>
    ELSE <<IndexToNode(manager, index)>>
             \o path_from_with_end(manager, solution, solution[index])

\* The loop of get_solution for one vehicle: the nodes from index up to, and
\* not including, the vehicle's end.
RECURSIVE path_from(_, _, _)
path_from(manager, solution, index) ==
    IF IsEnd(manager, index)
    THEN <<>>
    ELSE <<IndexToNode(manager, index)>>
             \o path_from(manager, solution, solution[index])

get_solution(dm, manager, solution) ==
    [vehicle_id \in 1..dm.num_vehicles |->
        path_from(manager, solution, Start(manager, vehicle_id))]

\* Cumulated transit of a vehicle that leaves node `from` and visits route
\* (node numbers) before its end node
RECURSIVE route_distance(_, _, _, _)
route_distance(matrix, from, route, end) ==
    IF route = <<>>
    THEN matrix[from + 1][end + 1]
    ELSE matrix[from + 1][Head(route) + 1]
             + route_distance(matrix, Head(route), Tail(route), end)

max_travel_distance == 1000000

\* The routes vehicle v may drive through the node set T: the 'Capacity'
\* and 'Distance' dimensions of get_routes
\* Cumulated demand of the nodes route[i..]
RECURSIVE route_load(_, _, _)
route_load(demands, route, i) ==
    IF i > Len(route) THEN 0
    ELSE demands[route[i] + 1] + route_load(demands, route, i + 1)

\* The 'Capacity' and 'Distance' dimensions of get_routes for vehicle v
\* driving through route
route_allowed(dm, v, route) ==
    /\ dm.demands[dm.starts[v] + 1] + route_load(dm.demands, route, 1)
           <= dm.vehicle_capacities[v]
    /\ route_distance(dm.distance_matrix, dm.starts[v], route, dm.ends[v])
           <= max_travel_distance

\* The nodes of S in increasing order
sorted(S) ==
    [k \in 1..Cardinality(S) |->
        CHOOSE n \in S : Cardinality({m \in S : m < n}) = k - 1]

\* The ways to cut count nodes into one stretch c[v-1]+1..c[v] per vehicle v
cuts(cars, count) ==
    { c \in [0..cars -> 0..count] :
        /\ c[0] = 0
        /\ c[cars] = count
        /\ \A v \in 1..cars : c[v - 1] <= c[v] }

\* The routes of the vehicles when the nodes are served in the order p, cut
\* at c: every node is visited by exactly one vehicle, exactly once
route_plan(nodes, p, c) ==
    [v \in DOMAIN c \ {0} |->
        [i \in 1..(c[v] - c[v - 1]) |-> nodes[p[c[v - 1] + i]]]]

\* The NextVar values along the index chain c[i..]
RECURSIVE chain_links(_, _)
chain_links(c, i) ==
    IF i >= Len(c) THEN <<>>
    ELSE (c[i] :> c[i + 1]) @@ chain_links(c, i + 1)

\* The NextVar values of the vehicles v.. of the plan: solution[index] is
\* the index that follows index
RECURSIVE next_vars(_, _, _)
next_vars(manager, plan, v) ==
    IF v > Len(plan) THEN <<>>
    ELSE chain_links(<<manager.vehicle_to_start[v]>>
                       \o [i \in DOMAIN plan[v] |-> manager.node_to_index[plan[v][i]]]
                       \o <<manager.vehicle_to_end[v]>>, 1)
           @@ next_vars(manager, plan, v + 1)

\* The nodes every solution has to visit: those that are no vehicle's start
\* or end
mandatory(dm, manager) == DOMAIN manager.node_to_index \ Range(dm.starts)

assign_cost(source, dest) ==
    IF source = None \/ dest = None
    THEN 1
    ELSE pair_euclid_distance(values(source), values(dest))

\* assign_feasible without the constraint Sum_j x[i, j] <= 1 of the routes
assign_feasible_shared(num_destinations, num_drivers) ==
    [1..num_drivers -> 1..num_destinations]

\* The 0-1 matrices x[i, j] that satisfy the constraints of assign_drivers,
\* as the map from driver j to its route i
assign_feasible(num_destinations, num_drivers) ==
    { x \in [1..num_drivers -> 1..num_destinations] :
        \A j1, j2 \in 1..num_drivers : x[j1] = x[j2] => j1 = j2 }

assign_total(costs, x) == SumSeq([j \in DOMAIN x |-> costs[x[j]][j]])

\* The outcomes of assign_drivers(data, paths, drivers); paths is the value
\* get_routes returned
assign_drivers(d, maybe_paths, drvs) ==
    IF drvs = <<>>
    THEN { [raised |-> NoException, assignment |-> <<>>] }
    ELSE IF maybe_paths = None
    THEN { [raised |-> "TypeError", assignment |-> <<>>] }
    ELSE LET routes == maybe_paths[1]
             route_ends ==
                 [n \in DOMAIN routes |->
                     [index |-> routes[n][Len(routes[n])],
                      location |-> Get(d[routes[n][Len(routes[n])] + 1], "location")]]
             \* (concatenated with the empty list, a list is computed once)
             costs ==
                 <<>> \o [i \in DOMAIN route_ends |-> <<>> \o [j \in DOMAIN drvs |->
                     assign_cost(drvs[j].location, route_ends[i].location)]]
             feasible == assign_feasible(Len(route_ends), Len(drvs))
             best == CHOOSE x \in feasible :
                        \A y \in feasible : assign_total(costs, x) <= assign_total(costs, y)
             optimal == { x \in feasible : assign_total(costs, x) = assign_total(costs, best) }
         IN  IF feasible = {}
             THEN { [raised |-> NoException, assignment |-> <<>>] }
             ELSE { [raised |-> NoException,
                     assignment |->
                        [i \in {x[j] - 1 : j \in DOMAIN x} |->
                            drvs[CHOOSE j \in DOMAIN x : x[j] - 1 = i].name]]
                    : x \in optimal }

----------------------------------------------------------------------------
(* routes.py *)

csv_keys == <<"address">>

RECURSIVE Flatten(_)
Flatten(ss) == IF ss = <<>> THEN <<>> ELSE Head(ss) \o Flatten(Tail(ss))

RECURSIVE SelectSeqNonZero(_)
SelectSeqNonZero(path) ==
    IF path = <<>> THEN <<>>
    ELSE IF Head(path) = 0 THEN SelectSeqNonZero(Tail(path))
    ELSE <<Head(path)>> \o SelectSeqNonZero(Tail(path))

\* The outcome of slips_list(paths, data, assignment); node is the path
\* entry a delivery row was made of
slips_list(maybe_paths, d, assign) ==
    IF maybe_paths = None
    THEN [raised |-> "TypeError", output |-> <<>>]
    ELSE IF \E n \in DOMAIN maybe_paths[1] : \E i \in Range(maybe_paths[1][n]) : i >= Len(d)
    THEN [raised |-> "IndexError", output |-> <<>>]
    ELSE LET routes == maybe_paths[1]
         IN  [raised |-> NoException,
              output |-> Flatten(
                [n \in DOMAIN routes |->
                    << [kind |-> "driver",
                        name |-> IF (n - 1) \in DOMAIN assign THEN assign[n - 1] ELSE ""],
                       [kind |-> "header", fields |-> csv_keys] >>
                    \o [k \in DOMAIN SelectSeqNonZero(routes[n]) |->
                           LET i == SelectSeqNonZero(routes[n])[k]
                           IN  [kind |-> "delivery",
                                node |-> i,
                                fields |-> [c \in DOMAIN csv_keys |-> d[i + 1][csv_keys[c]]]]]
                    \o << [kind |-> "blank"] >>])]

----------------------------------------------------------------------------
(* The configurations and inputs of the bounded model *)

RECURSIVE SeqsUpTo(_, _)
SeqsUpTo(S, n) ==
    IF n = 0 THEN {<<>>}
    ELSE LET shorter == SeqsUpTo(S, n - 1)
         IN  shorter \cup { Append(q, x) : q \in {t \in shorter : Len(t) = n - 1}, x \in S }

DriverNames == <<"Ann", "Bob", "Cy", "Di">>

\* driver_data: location is gm_get_location(postal)["location"], or None
\* when the driver has no postal code
DriverEntries == { [postal |-> None, location |-> None],
                   [postal |-> <<"V", "8", "T">>, location |-> DriverLoc] }

DriverLists ==
    { [j \in DOMAIN q |-> SetItem(q[j], "name", DriverNames[j])]
      : q \in SeqsUpTo(DriverEntries, MaxDrivers) }

\* What a signup source holds: the rows of a csv file, or a json list that
\* already begins with the origin
Sources(o) ==
    LET lists == { from_csv(q) : q \in SeqsUpTo(SignupRows, MaxDeliveries) }
    IN  lists \cup { <<[address |-> o]>> \o l : l \in lists }

----------------------------------------------------------------------------
(* Routes.get_slips, statement by statement *)

Init ==
    /\ pc = "load_signups"
    /\ enable_filter \in BOOLEAN
    /\ origin \in Origins
    /\ drivers \in DriverLists
    /\ outfile \in BOOLEAN
    /\ geocoding_service = "bcgov"
    /\ geocache = driver_lookups(drivers, 1, EmptyCache, <<>>).cache
    /\ geocalls = driver_lookups(drivers, 1, EmptyCache, <<>>).calls
    /\ signups = <<>>
    /\ data = <<>>
    /\ filtered = <<>>
    /\ dist_matrix = <<>>
    /\ data_model = None
    /\ paths = None
    /\ assignment = <<>>
    /\ slips = <<>>
    /\ written = <<>>
    /\ called = {}
    /\ raised = NoException

Config == <<enable_filter, origin, drivers, outfile, geocoding_service>>

\* load_signups: data = self.from_csv(source) / load_json(source)
LoadSource ==
    /\ pc = "load_signups"
    /\ \E source \in Sources(origin) : signups' = source
    /\ pc' = "add_origin"
    /\ called' = called \cup {"load_signups"}
    /\ UNCHANGED <<Config, geocache, geocalls, data, filtered, dist_matrix, data_model, paths,
                   assignment, slips, written, raised>>

\* load_signups: self.add_origin(data, self.origin)
AddOrigin ==
    /\ pc = "add_origin"
    /\ signups' = add_origin(signups, origin)
    /\ pc' = "add_coordinates"
    /\ UNCHANGED <<Config, geocache, geocalls, data, filtered, dist_matrix, data_model, paths,
                   assignment, slips, written, called, raised>>

\* load_signups: self.add_coordinates(data)
AddCoordinates ==
    /\ pc = "add_coordinates"
    /\ LET returns(result) ==
               /\ signups' = result.data
               /\ geocache' = result.cache
               /\ geocalls' = result.calls
       IN  returns(add_coordinates(signups, geocoding_service, geocache, geocalls))
    /\ pc' = "check_coordinates"
    /\ UNCHANGED <<Config, data, filtered, dist_matrix, data_model, paths,
                   assignment, slips, written, called, raised>>

\* load_signups: data, filtered = self.check_coordinates(data); return
CheckCoordinates ==
    /\ pc = "check_coordinates"
    /\ LET result == check_coordinates(signups, enable_filter)
       IN  IF result.raised # NoException
           THEN /\ raised' = result.raised
                /\ pc' = "raised"
                /\ UNCHANGED <<data, filtered>>
           ELSE /\ data' = result.keep
                /\ filtered' = result.filtered
                /\ pc' = "distance_matrix"
                /\ UNCHANGED raised
    /\ UNCHANGED <<Config, geocache, geocalls, signups, dist_matrix, data_model, paths, assignment,
                   slips, written, called>>

\* distance_matrix = matrix.distance_matrix(data)
DistanceMatrix ==
    /\ pc = "distance_matrix"
    /\ called' = called \cup {"distance_matrix"}
    /\ IF \E k \in DOMAIN data : Get(data[k], "location") = None
       THEN /\ raised' = "AttributeError"
            /\ pc' = "raised"
            /\ UNCHANGED dist_matrix
       ELSE /\ dist_matrix' = distance_matrix(data)
            /\ pc' = "get_routes"
            /\ UNCHANGED raised
    /\ UNCHANGED <<Config, geocache, geocalls, signups, data, filtered, data_model, paths, assignment,
                   slips, written>>

\* paths = solver.get_routes(distance_matrix).  SolveWithParameters returns
\* None (no solution found within the time limit) or any assignment of the
\* NextVars that visits every node once and respects both dimensions.
\* (A one-element set binds a value that is computed once.)
GetRoutes ==
    /\ pc = "get_routes"
    /\ called' = called \cup {"get_routes"}
    /\ \E created \in { create_data_model(dist_matrix) } :
          /\ data_model' = created.data
          /\ IF created.raised # NoException
             THEN /\ paths' = None
                  /\ raised' = created.raised
                  /\ pc' = "raised"
             ELSE /\ UNCHANGED raised
                  /\ pc' = "assign_drivers"
                  /\ \E manager \in { RoutingIndexManager(
                                         Len(created.data.distance_matrix),
                                         created.data.num_vehicles,
                                         created.data.starts,
                                         created.data.ends) } :
                        \/ paths' = None
                        \/ \E nodes \in { sorted(mandatory(created.data, manager)) } :
                           \E p \in Permutations(1..Len(nodes)) :
                           \E c \in cuts(created.data.num_vehicles, Len(nodes)) :
                           \E plan \in { route_plan(nodes, p, c) } :
                              /\ \A v \in DOMAIN plan : route_allowed(created.data, v, plan[v])
                              /\ paths' = Some(get_solution(created.data, manager,
                                                            next_vars(manager, plan, 1)))
    /\ UNCHANGED <<Config, geocache, geocalls, signups, data, filtered, dist_matrix, assignment,
                   slips, written>>

\* assignment = solver.assign_drivers(data, paths, self.drivers)
AssignDrivers ==
    /\ pc = "assign_drivers"
    /\ called' = called \cup {"assign_drivers"}
    /\ \E result \in assign_drivers(data, paths, drivers) :
          /\ assignment' = result.assignment
          /\ raised' = result.raised
          /\ pc' = IF result.raised # NoException THEN "raised" ELSE "slips_list"
    /\ UNCHANGED <<Config, geocache, geocalls, signups, data, filtered, dist_matrix, data_model, paths,
                   slips, written>>

\* slips = self.slips_list(paths, data, assignment)
SlipsList ==
    /\ pc = "slips_list"
    /\ called' = called \cup {"slips_list"}
    /\ LET result == slips_list(paths, data, assignment)
       IN  /\ slips' = result.output
           /\ raised' = result.raised
           /\ pc' = IF result.raised # NoException THEN "raised" ELSE "write_slips"
    /\ UNCHANGED <<Config, geocache, geocalls, signups, data, filtered, dist_matrix, data_model, paths,
                   assignment, written>>

\* if outfile: self.write_slips(outfile, slips); return slips
WriteSlips ==
    /\ pc = "write_slips"
    /\ IF outfile
       THEN /\ written' = slips
            /\ called' = called \cup {"write_slips"}
       ELSE UNCHANGED <<written, called>>
    /\ pc' = "return"
    /\ UNCHANGED <<Config, geocache, geocalls, signups, data, filtered, dist_matrix, data_model, paths,
                   assignment, slips, raised>>

Next ==
    \/ LoadSource
    \/ AddOrigin
    \/ AddCoordinates
    \/ CheckCoordinates
    \/ DistanceMatrix
    \/ GetRoutes
    \/ AssignDrivers
    \/ SlipsList
    \/ WriteSlips

Spec == Init /\ [][Next]_vars

----------------------------------------------------------------------------
(* get_routes on kept lists of up to MaxRecords records *)

RoutePoints == <<DepotLoc, NearLoc, V8TLoc, V9ALoc, DefaultLoc>>

\* A kept list of n located records
KeptList(n) ==
    [i \in 1..n |->
        [address |-> NearSt,
         location |-> RoutePoints[((i - 1) % Len(RoutePoints)) + 1],
         source_index |-> i]]

InitRoutes ==
    /\ pc = "distance_matrix"
    /\ enable_filter = TRUE
    /\ origin = Victoria
    /\ drivers = <<>>
    /\ outfile = FALSE
    /\ geocoding_service = "bcgov"
    /\ geocache = EmptyCache
    /\ geocalls = <<>>
    /\ signups = <<>>
    /\ \E n \in 0..MaxRecords : data = KeptList(n)
    /\ filtered = <<>>
    /\ dist_matrix = <<>>
    /\ data_model = None
    /\ paths = None
    /\ assignment = <<>>
    /\ slips = <<>>
    /\ written = <<>>
    /\ called = {"load_signups"}
    /\ raised = NoException

NextRoutes ==
    \/ DistanceMatrix
    \/ GetRoutes

SpecRoutes == InitRoutes /\ [][NextRoutes]_vars

----------------------------------------------------------------------------
(* The geocoding functions: up to MaxLookups direct calls, then            *)
(* add_coordinates on a list of up to MaxLookups signups                   *)

\* Addresses as they are written in signups: plain, with a unit number,
\* in lower case with the city, and one the services do not know
RawAddresses == {NearSt, UnitNearSt, NearStCity, NowhereLn}

\* Signup rows; a row of a json source may come with its coordinates
GeoRows ==
    { [address |-> NearSt],
      [address |-> UnitNearSt],
      [address |-> NowhereLn],
      [address |-> NearSt, location |-> NearLoc] }

InitGeocode ==
    /\ pc = "add_coordinates"
    /\ enable_filter = TRUE
    /\ origin = Victoria
    /\ drivers = <<>>
    /\ outfile = FALSE
    /\ geocoding_service \in GeocodingServices
    /\ geocache = EmptyCache
    /\ geocalls = <<>>
    /\ \E q \in SeqsUpTo(GeoRows, MaxLookups) : signups = add_origin(from_csv(q), origin)
    /\ data = <<>>
    /\ filtered = <<>>
    /\ dist_matrix = <<>>
    /\ data_model = None
    /\ paths = None
    /\ assignment = <<>>
    /\ slips = <<>>
    /\ written = <<>>
    /\ called = {"load_signups"}
    /\ raised = NoException

\* A call self.geocoding_func(address) from outside add_coordinates
Geocode ==
    /\ pc = "add_coordinates"
    /\ Len(geocalls) < MaxLookups
    /\ \E address \in RawAddresses :
          LET returns(looked) ==
                  /\ geocache' = looked.cache
                  /\ geocalls' = looked.calls
          IN  returns(geocoding_func(geocoding_service, geocache, geocalls, address))
    /\ UNCHANGED <<Config, pc, signups, data, filtered, dist_matrix, data_model,
                   paths, assignment, slips, written, called, raised>>

NextGeocode ==
    \/ Geocode
    \/ AddCoordinates

SpecGeocode == InitGeocode /\ [][NextGeocode]_vars

----------------------------------------------------------------------------
(* assign_drivers on lists of up to MaxRoutes routes and MaxRouteDrivers   *)
(* drivers                                                                 *)

AssignPoints == <<DepotLoc, NearLoc, DefaultLoc, V9ALoc, V8TLoc>>

\* A data list of n records; when located is FALSE the record of node 1 has
\* no coordinate
AssignData(n, located) ==
    [i \in 1..n |->
        IF i = 2 /\ ~located
        THEN [address |-> NowhereLn, source_index |-> i - 1]
        ELSE [address |-> NearSt,
              location |-> AssignPoints[((i - 1) % Len(AssignPoints)) + 1],
              source_index |-> i - 1]]

\* driver_data for the drivers of the configuration: no postal code, or a
\* postal code that gm_get_location resolves
RouteDriverEntries ==
    { [postal |-> None, location |-> None],
      [postal |-> <<"V", "8", "T">>, location |-> DriverLoc],
      [postal |-> <<"V", "9", "A">>, location |-> V9ALoc] }

RouteDriverLists ==
    { [j \in DOMAIN q |-> SetItem(q[j], "name", DriverNames[j])]
      : q \in SeqsUpTo(RouteDriverEntries, MaxRouteDrivers) }

\* The orders in which the routes visit count nodes: by node number, up or
\* down
VisitOrders(count) ==
    { [k \in 1..count |-> k], [k \in 1..count |-> count + 1 - k] }

\* The arguments of assign_drivers(data, paths, drivers): every route
\* begins at node 0 and the other nodes of data are spread over the routes
InitAssign ==
    /\ pc = "assign_drivers"
    /\ enable_filter = TRUE
    /\ origin = Victoria
    /\ drivers \in RouteDriverLists
    /\ outfile = FALSE
    /\ geocoding_service = "bcgov"
    /\ geocache = driver_lookups(drivers, 1, EmptyCache, <<>>).cache
    /\ geocalls = driver_lookups(drivers, 1, EmptyCache, <<>>).calls
    /\ signups = <<>>
    /\ \E n \in 1..(MaxRoutes + 1), located \in BOOLEAN : data = AssignData(n, located)
    /\ filtered = <<>>
    /\ dist_matrix = <<>>
    /\ data_model = None
    /\ \E r \in 0..MaxRoutes :
       \E p \in VisitOrders(Len(data) - 1) :
       \E c \in cuts(r, Len(data) - 1) :
          paths = Some([v \in 1..r |->
                          <<0>> \o route_plan([k \in 1..(Len(data) - 1) |-> k], p, c)[v]])
    /\ assignment = <<>>
    /\ slips = <<>>
    /\ written = <<>>
    /\ called = {}
    /\ raised = NoException

NextAssign == AssignDrivers

SpecAssign == InitAssign /\ [][NextAssign]_vars

----------------------------------------------------------------------------
(* Properties *)

\* check_coordinates has been called (it has returned or raised)
CheckCalled ==
    pc \notin {"load_signups", "add_origin", "add_coordinates", "check_coordinates"}

\* check_coordinates has returned its two lists
CheckReturned ==
    CheckCalled /\ (pc = "raised" => "distance_matrix" \in called)

OriginLocated == Get(signups[1], "location") # None

\* The non-origin records check_coordinates received
Deliveries == Tail(signups)

SourceIndex(row) == IF "source_index" \in DOMAIN row THEN row.source_index ELSE 0

SourceIndexes(rows) == [k \in DOMAIN rows |-> SourceIndex(rows[k])]

\* a is b with some elements left out
RECURSIVE IsSubSeq(_, _)
IsSubSeq(a, b) ==
    IF a = <<>> THEN TRUE
    ELSE IF b = <<>> THEN FALSE
    ELSE IF Head(a) = Head(b) THEN IsSubSeq(Tail(a), Tail(b))
    ELSE IsSubSeq(a, Tail(b))

\* The postal codes are the same up to the case of their letters
SameCode(a, b) ==
    /\ Len(a) = Len(b)
    /\ \A i \in DOMAIN a : UpperChar(a[i]) = UpperChar(b[i])

\* The coordinate the postal table holds for the record's postal code, or
\* the system default when the code is absent or not in the table
ExpectedFallback(row) ==
    LET postal == Get(row, "postal")
        known == { key \in DOMAIN postal_code_fallback :
                     postal # None /\ SameCode(key, postal) }
    IN  IF known # {}
        THEN postal_code_fallback[CHOOSE key \in known : TRUE]
        ELSE default_location

TooFar(row) ==
    distance(row.location, signups[1].location)[1] > threshold

\* C1: when the origin has a coordinate, the kept list check_coordinates
\* returns has the origin record as its first element (with and without
\* the filter).
C1_OriginFirstInKept ==
    CheckReturned => (data # <<>> /\ data[1] = signups[1])

\* C2: a located non-origin record farther than the threshold from the
\* origin is in filtered and not in kept when the filter is on, and is in
\* kept with the fallback coordinate of its postal code (the system default
\* when the code is absent or unknown) when the filter is off; a record
\* within the threshold is kept unchanged.
C2_FarFilteredOrFallback ==
    CheckReturned =>
        \A i \in DOMAIN Deliveries :
            LET row == Deliveries[i]
            IN  Get(row, "location") # None =>
                  IF TooFar(row)
                  THEN IF enable_filter
                       THEN /\ \E k \in DOMAIN filtered : filtered[k] = row
                            /\ \A k \in DOMAIN data :
                                  SourceIndex(data[k]) # SourceIndex(row)
                       ELSE /\ \E k \in DOMAIN data :
                                  data[k] = SetItem(row, "location", ExpectedFallback(row))
                            /\ \A k \in DOMAIN filtered :
                                  SourceIndex(filtered[k]) # SourceIndex(row)
                  ELSE \E k \in DOMAIN data : data[k] = row

\* A far record with a known postal code and a near record, both kept with
\* the filter off
C2_Witness ==
    /\ CheckReturned
    /\ ~enable_filter
    /\ \E i \in DOMAIN Deliveries, k \in DOMAIN data :
          /\ Get(Deliveries[i], "postal") = <<"v", "8", "t">>
          /\ TooFar(Deliveries[i])
          /\ SourceIndex(data[k]) = SourceIndex(Deliveries[i])
          /\ data[k].location = V8TLoc
    /\ \E i \in DOMAIN Deliveries, k \in DOMAIN data :
          /\ ~TooFar(Deliveries[i])
          /\ data[k] = Deliveries[i]

\* C3: when a non-origin record has no coordinate after add_coordinates,
\* check_coordinates still returns, with the record in filtered when the
\* filter is on and in kept with a fallback coordinate when it is off.
C3_UnlocatedRecordHandled ==
    (CheckCalled /\ OriginLocated) =>
        \A i \in DOMAIN Deliveries :
            LET row == Deliveries[i]
            IN  Get(row, "location") = None =>
                  /\ CheckReturned
                  /\ IF enable_filter
                     THEN \E k \in DOMAIN filtered : filtered[k] = row
                     ELSE \E k \in DOMAIN data :
                            data[k] = SetItem(row, "location", ExpectedFallback(row))

\* C4: when the origin has no coordinate, check_coordinates raises before
\* classifying any record and get_slips ends there: no kept or filtered
\* list, no distance matrix, no solver call, no slips, nothing written.
C4_UnlocatedOriginAborts ==
    (CheckCalled /\ ~OriginLocated) =>
        /\ pc = "raised"
        /\ raised = "ValueError"
        /\ data = <<>>
        /\ filtered = <<>>
        /\ dist_matrix = <<>>
        /\ data_model = None
        /\ paths = None
        /\ slips = <<>>
        /\ written = <<>>
        /\ called = {"load_signups"}

\* The run has ended on an origin without coordinates, with deliveries waiting
C4_Witness ==
    /\ pc = "raised"
    /\ raised = "ValueError"
    /\ ~OriginLocated
    /\ Len(Deliveries) >= 2

\* C5: when check_coordinates returns, every non-origin record is in
\* exactly one of kept and filtered, both lists are in input order, and
\* filtered is empty when the filter is off.
C5_KeptFilteredPartition ==
    CheckReturned =>
        /\ IsSubSeq(SourceIndexes(data), SourceIndexes(Deliveries))
        /\ IsSubSeq(SourceIndexes(filtered), SourceIndexes(Deliveries))
        /\ Range(SourceIndexes(data)) \cup Range(SourceIndexes(filtered))
              = Range(SourceIndexes(Deliveries))
        /\ Range(SourceIndexes(data)) \cap Range(SourceIndexes(filtered)) = {}
        /\ Len(data) + Len(filtered) = Len(Deliveries)
        /\ ~enable_filter => filtered = <<>>

\* Two records kept around a filtered one
C5_Witness ==
    /\ CheckReturned
    /\ enable_filter
    /\ Len(data) = 2
    /\ Len(filtered) = 1
    /\ SourceIndex(data[1]) < SourceIndex(filtered[1])
    /\ SourceIndex(filtered[1]) < SourceIndex(data[2])

MatrixBuilt == "distance_matrix" \in called /\ dist_matrix # <<>>

\* C6: for N located records distance_matrix returns N+1 rows of N+1
\* entries; row N and column N are zero, the diagonal is zero and the
\* block of the records is symmetric.
C6_MatrixShape ==
    MatrixBuilt =>
        LET N == Len(data)
        IN  /\ Len(dist_matrix) = N + 1
            /\ \A i \in 1..(N + 1) : Len(dist_matrix[i]) = N + 1
            /\ \A i \in 1..(N + 1) :
                  dist_matrix[N + 1][i] = 0 /\ dist_matrix[i][N + 1] = 0
            /\ \A i \in 1..N : dist_matrix[i][i] = 0
            /\ \A i, j \in 1..N : dist_matrix[i][j] = dist_matrix[j][i]

\* A matrix of three records that are not all in the same place
C6_Witness ==
    /\ MatrixBuilt
    /\ Len(data) = 3
    /\ dist_matrix[1][2] > 0
    /\ dist_matrix[2][3] > 0

\* C7: for a matrix of size N+1, create_data_model has N-1 deliveries,
\* ceil((N-1)/6) vehicles, the demands [0, 1, ..., 1, 0] of length N+1
\* with N-1 ones, every vehicle from node 0 to node N, and its assertion
\* sum(demands) <= num_vehicles * 6 holds.
C7_DataModel ==
    data_model # None =>
        LET N == Len(dist_matrix) - 1
            deliveryCount == N - 1
            demands == data_model.demands
        IN  /\ data_model.num_vehicles * 6 >= deliveryCount
            /\ (data_model.num_vehicles - 1) * 6 < deliveryCount
            /\ Len(demands) = N + 1
            /\ demands[1] = 0
            /\ demands[N + 1] = 0
            /\ \A i \in 2..N : demands[i] = 1
            /\ Cardinality({i \in DOMAIN demands : demands[i] = 1}) = deliveryCount
            /\ data_model.starts = Repeat(0, data_model.num_vehicles)
            /\ data_model.ends = Repeat(N, data_model.num_vehicles)
            /\ SumSeq(demands) <= data_model.num_vehicles * 6
            /\ raised # "AssertionError"

RoutesFound == paths # None

\* The virtual terminal node
Terminal == Len(dist_matrix) - 1

\* C8 as claimed: every route get_routes returns begins with 0, ends with
\* the terminal node N and has distinct deliveries of 1..N-1 in between.
C8_RouteEndsAtTerminal ==
    RoutesFound =>
        \A r \in DOMAIN paths[1] :
            LET route == paths[1][r]
            IN  /\ Len(route) >= 2
                /\ route[1] = 0
                /\ route[Len(route)] = Terminal
                /\ \A k \in 2..(Len(route) - 1) : route[k] \in 1..(Terminal - 1)
                /\ \A k, l \in 2..(Len(route) - 1) : route[k] = route[l] => k = l

\* C8 as amended: every route get_routes returns begins with 0, goes on
\* with distinct deliveries of 1..N-1, and does not hold the terminal node.
C8_RouteStartsAtOrigin ==
    RoutesFound =>
        \A r \in DOMAIN paths[1] :
            LET route == paths[1][r]
            IN  /\ Len(route) >= 1
                /\ route[1] = 0
                /\ \A k \in 2..Len(route) : route[k] \in 1..(Terminal - 1)
                /\ \A k, l \in 2..Len(route) : route[k] = route[l] => k = l
                /\ Terminal \notin Range(route)

\* Two vehicles, each with deliveries
C8_Witness ==
    /\ RoutesFound
    /\ Len(paths[1]) = 2
    /\ Len(paths[1][1]) >= 3
    /\ Len(paths[1][2]) >= 3

\* C9: in the routes get_routes returns, every delivery 1..N-1 is in
\* exactly one route, once, and no route has more than 6 deliveries.
C9_RoutesPartitionDeliveries ==
    RoutesFound =>
        /\ \A d \in 1..(Terminal - 1) :
              Cardinality({ <<r, k>> \in (DOMAIN paths[1]) \X (1..Terminal) :
                              k \in DOMAIN paths[1][r] /\ paths[1][r][k] = d }) = 1
        /\ \A r \in DOMAIN paths[1] :
              Cardinality({ k \in DOMAIN paths[1][r] :
                              paths[1][r][k] \in 1..(Terminal - 1) }) <= 6

\* Seven deliveries: one vehicle is full and the other takes the last one
C9_Witness ==
    /\ RoutesFound
    /\ Terminal = 8
    /\ Len(paths[1]) = 2
    /\ Len(paths[1][1]) = 7
    /\ Len(paths[1][2]) = 2

\* C10: when the solver finds no solution, get_routes fails with an error
\* and get_slips ends there: assign_drivers and slips_list are never
\* called, and no slips are returned or written.
C10_NoSolutionStopsPipeline ==
    ("get_routes" \in called /\ paths = None) =>
        /\ pc = "raised"
        /\ raised # NoException
        /\ "assign_drivers" \notin called
        /\ "slips_list" \notin called
        /\ slips = <<>>
        /\ written = <<>>

\* assign_drivers has returned for a list of routes
AssignReturned == "assign_drivers" \in called /\ paths # None /\ pc # "raised"

\* The last node of the route at position i (positions count from 0)
RouteLast(i) == paths[1][i + 1][Len(paths[1][i + 1])]

\* cost(driver, route): the projected distance from the driver's coordinate
\* to the coordinate of the route's last node, or 1 when either is unknown
Cost(j, i) ==
    LET source == drivers[j].location
        dest == Get(data[RouteLast(i) + 1], "location")
    IN  IF source = None \/ dest = None THEN 1 ELSE distance(source, dest)[1]

\* Every way to give each driver a route of its own
Injections ==
    { f \in [DOMAIN drivers -> 0..(Len(paths[1]) - 1)] :
        \A j, k \in DOMAIN drivers : f[j] = f[k] => j = k }

\* The costs of all pairs, as a list by driver of lists by route
CostTable ==
    <<>> \o [j \in DOMAIN drivers |->
               <<>> \o [r \in DOMAIN paths[1] |-> Cost(j, r - 1)]]

\* The total cost of the first j drivers under f
RECURSIVE CostSum(_, _, _)
CostSum(table, f, j) ==
    IF j = 0 THEN 0 ELSE table[j][f[j] + 1] + CostSum(table, f, j - 1)

\* The routes the returned assignment gives to driver j
RoutesOf(j) == { i \in DOMAIN assignment : assignment[i] = drivers[j].name }

\* C11: for a non-empty driver list with no more drivers than routes,
\* assign_drivers returns a mapping from route position to driver name in
\* which every driver has exactly one route, no route has more than one
\* driver, and the total cost of the chosen pairs is the minimum over all
\* injective assignments of the drivers to routes.
C11_AssignmentIsMinimal ==
    (AssignReturned /\ drivers # <<>> /\ Len(drivers) <= Len(paths[1])) =>
        /\ DOMAIN assignment \subseteq 0..(Len(paths[1]) - 1)
        /\ \A j \in DOMAIN drivers : Cardinality(RoutesOf(j)) = 1
        /\ \A i \in DOMAIN assignment :
              Cardinality({ j \in DOMAIN drivers : assignment[i] = drivers[j].name }) = 1
        /\ LET chosen == [j \in DOMAIN drivers |-> CHOOSE i \in RoutesOf(j) : TRUE]
               table == CostTable
               total == CostSum(table, chosen, Len(drivers))
           IN  \A f \in Injections : total <= CostSum(table, f, Len(drivers))

\* Two drivers and three routes: Ann is nearest the end of route 0 and Bob
\* the end of route 2; route 1 stays without a driver
C11_Witness ==
    /\ AssignReturned
    /\ Len(drivers) = 2
    /\ drivers[1].location = DriverLoc
    /\ drivers[2].location = V9ALoc
    /\ paths = Some(<< <<0, 1>>, <<0, 2>>, <<0, 3>> >>)
    /\ Cost(1, 0) < Cost(1, 1) /\ Cost(1, 0) < Cost(1, 2)
    /\ Cost(2, 2) < Cost(2, 0) /\ Cost(2, 2) < Cost(2, 1)
    /\ DOMAIN assignment = {0, 2}
    /\ assignment[0] = "Ann"
    /\ assignment[2] = "Bob"

\* The sum of x[i, j] over the pairs of S
RECURSIVE SumOver(_, _)
SumOver(x, S) ==
    IF S = {} THEN 0
    ELSE LET q == CHOOSE q \in S : TRUE
         IN  x[q] + SumOver(x, S \ {q})

\* Some 0-1 matrix x[i, j] gives each route i at most one driver and each
\* driver j exactly one route
ConstraintsSatisfiable ==
    LET routes == 1..Len(paths[1])
        people == DOMAIN drivers
    IN  \E x \in [routes \X people -> {0, 1}] :
           /\ \A i \in routes : SumOver(x, {i} \X people) <= 1
           /\ \A j \in people : SumOver(x, routes \X {j}) = 1

\* assign_drivers took its infeasible branch: it had drivers and returned
\* the empty assignment
InfeasibleBranch == AssignReturned /\ drivers # <<>> /\ assignment = <<>>

AtMostMinAssigned ==
    /\ Cardinality(DOMAIN assignment) <= Len(drivers)
    /\ Cardinality(DOMAIN assignment) <= Len(paths[1])

\* C13 as claimed: for every non-empty driver list and every route list
\* (more drivers than routes included) the constraints of assign_drivers
\* are satisfiable, so the infeasible branch is never taken, and at most
\* min(|drivers|, |routes|) drivers are assigned.
C13_ConstraintsAlwaysSatisfiable ==
    (AssignReturned /\ drivers # <<>>) =>
        /\ ConstraintsSatisfiable
        /\ ~InfeasibleBranch
        /\ AtMostMinAssigned

\* C13 as amended: the constraints of assign_drivers are satisfiable
\* exactly when there are no more drivers than routes; with more drivers
\* than routes the infeasible branch is taken and the assignment is empty;
\* in every case at most min(|drivers|, |routes|) drivers are assigned.
C13_SatisfiableIffEnoughRoutes ==
    (AssignReturned /\ drivers # <<>>) =>
        /\ ConstraintsSatisfiable <=> Len(drivers) <= Len(paths[1])
        /\ InfeasibleBranch <=> Len(drivers) > Len(paths[1])
        /\ AtMostMinAssigned

\* Two drivers and one route: nobody is assigned
C13_Witness ==
    /\ AssignReturned
    /\ Len(drivers) = 2
    /\ Len(paths[1]) = 1
    /\ ~ConstraintsSatisfiable
    /\ assignment = <<>>

\* slips_list has returned the slips
SlipsReturned == "slips_list" \in called /\ pc \in {"write_slips", "return"}

\* The delivery rows of the slips that were made of node i
RowsOf(i) ==
    { r \in DOMAIN slips : slips[r].kind = "delivery" /\ slips[r].node = i }

\* C14: when routing succeeds, every kept delivery record (every non-origin
\* record that check_coordinates kept) has exactly one delivery row across
\* the slips get_slips returns, and neither the origin nor the virtual
\* terminal node has a delivery row.
C14_EveryKeptDeliveryHasOneRow ==
    (SlipsReturned /\ RoutesFound) =>
        /\ \A k \in DOMAIN data :
              data[k] # signups[1] => Cardinality(RowsOf(k - 1)) = 1
        /\ \A k \in DOMAIN data :
              data[k] = signups[1] => RowsOf(k - 1) = {}
        /\ RowsOf(Terminal) = {}

\* The calls a, b of the geocoding function, a before b
CallPairs == { <<a, b>> \in (DOMAIN geocalls) \X (DOMAIN geocalls) : a < b }

\* The second call was answered from the cache: the service was not invoked
\* again and the result is that of the first call
AnsweredFromCache(a, b) ==
    /\ ~geocalls[b].invoked
    /\ geocalls[b].result = geocalls[a].result

\* C12 as claimed: geocode results are memoized by the normalized address:
\* of two lookups through the configured geocoding function (built-in or
\* custom) whose raw addresses normalize to the same string, the second
\* does not invoke the external lookup and returns the cached result.
C12_MemoizedByNormalizedAddress ==
    \A <<a, b>> \in CallPairs :
        preprocess_address(geocalls[a].address) = preprocess_address(geocalls[b].address)
            => AnsweredFromCache(a, b)

\* C12 as amended: the results of the built-in geocoding functions are
\* memoized by the raw address: of two lookups through a built-in function
\* with the same raw address string, the second does not invoke the
\* external lookup and returns the cached result.
C12_MemoizedByRawAddress ==
    geocoding_service \in {"bcgov", "google"} =>
        \A <<a, b>> \in CallPairs :
            geocalls[a].address = geocalls[b].address => AnsweredFromCache(a, b)

\* add_coordinates has met an address for the second time: the first call
\* invoked the service, the second was answered from the cache
C12_Witness ==
    /\ pc = "check_coordinates"
    /\ geocoding_service = "bcgov"
    /\ \E <<a, b>> \in CallPairs :
          /\ geocalls[a].address = geocalls[b].address
          /\ geocalls[a].invoked
          /\ geocalls[a].query = InCity(NearSt)
          /\ AnsweredFromCache(a, b)
          /\ \E k \in DOMAIN signups :
                /\ signups[k].address = geocalls[b].address
                /\ Get(signups[k], "location") = NearLoc

====
